---- MODULE Spec2Model ----
(***************************************************************************)
(* NanoscopeParser (nanoscope/nanoscope.py): the header walker             *)
(* (read_header, _handle_parameter, _read_image_header) and the binary     *)
(* image decoder (read_image_data).                                        *)
(*                                                                         *)
(* The text file is read line by line; each line the iterator yields is    *)
(* an input of the step that reads it, and the records read so far are     *)
(* kept in the history variable consumed.  Python dictionaries are         *)
(* objects: the per-section dictionaries live in heap and images holds     *)
(* references (indices) into it, so that aliasing is visible.              *)
(***************************************************************************)
EXTENDS Integers, Sequences, FiniteSets, TLC

\* Most lines one read_header call reads from the file.
MaxLen == 5

\* Largest value of a numeric configuration field of a channel.
MaxField == 3

\* Most bytes in the file from which image data is decoded.
MaxBytes == 4

VARIABLES
    config,        \* self.config: parameter name -> hard value
    images,        \* self.images: designation -> reference into heap
    heap,          \* the image_config dictionaries created so far
    data,          \* the bytes of the file (binary view)
    hdr_pc,        \* where read_header is: "idle", "top", "handle", "section"
    parameter,     \* the record _handle_parameter is about to evaluate
    image_config,  \* reference of the dictionary _read_image_header fills
    depth,         \* nesting of _handle_parameter calls
    hdr_result,    \* how the last read_header call ended
    text_open,     \* text-mode handles of read_header that are open
    bin_open,      \* binary-mode handles of read_image_data that are open
    calls,         \* read_header calls made so far
    consumed,      \* history: records read by the current/last read_header
    eof,           \* history: the iterator of that call was exhausted
    config0,       \* history: self.config when that call began
    images0,       \* history: self.images when that call began
    heap0,         \* history: the dictionaries when that call began
    img_type,      \* argument of the last read_image_data call
    img_result,    \* its outcome and grid
    img_opened     \* history: that call opened the file

hdr_vars == <<hdr_pc, parameter, image_config, depth, hdr_result, text_open,
              calls, consumed, eof, config0, images0, heap0>>
doc_vars == <<config, images, heap>>
img_vars == <<img_type, img_result, img_opened, bin_open>>
vars == <<config, images, heap, data, hdr_pc, parameter, image_config, depth,
          hdr_result, text_open, bin_open, calls, consumed, eof, config0,
          images0, heap0, img_type, img_result, img_opened>>

----------------------------------------------------------------------------
\* Parameter records, as parse_parameter returns them.

SupportedVersions == {"0x05120130"}

Header(h) ==
    [type |-> "H", parameter |-> "", header |-> h,
     internal_designation |-> "", hard_value |-> ""]

Select(p, d, v) ==
    [type |-> "S", parameter |-> p, header |-> "",
     internal_designation |-> d, hard_value |-> v]

Value(p, v) ==
    [type |-> "V", parameter |-> p, header |-> "",
     internal_designation |-> "", hard_value |-> v]

\* A line parse_parameter rejects: it raises instead of returning a record.
BadLine ==
    [type |-> "?", parameter |-> "", header |-> "",
     internal_designation |-> "", hard_value |-> ""]

\* What _read_image_header returns when its loop runs out of lines.
NoneParameter ==
    [type |-> "None", parameter |-> "", header |-> "",
     internal_designation |-> "", hard_value |-> ""]

Lines ==
    { Header("File list end"), Header("Ciao image list"), Header("Ciao scan list"),
      Select("Image Data", "Height", "Height"),
      Select("Image Data", "Amplitude", "Amplitude"),
      Select("Version", "", "0x05120000"),
      Value("Version", "0x05120130"), Value("Version", "0x05120000"),
      Value("Samps/line", "256"), Value("Samps/line", "512"),
      BadLine }

ParseFails(line) == line.type = "?"

----------------------------------------------------------------------------
\* Dictionaries.

EmptyDict == <<>>

\* Mutant: an existing key keeps its value (setdefault for assignment).
Put_KeepFirst(d, k, v) ==
    [x \in (DOMAIN d) \cup {k} |-> IF x \in DOMAIN d THEN d[x] ELSE v]

\* d[k] = v
Put(d, k, v) == [x \in (DOMAIN d) \cup {k} |-> IF x = k THEN v ELSE d[x]]

----------------------------------------------------------------------------
Init ==
    /\ config = EmptyDict
    /\ images = EmptyDict
    /\ heap = <<>>
    /\ data = <<>>
    /\ hdr_pc = "idle"
    /\ parameter = NoneParameter
    /\ image_config = 0
    /\ depth = 0
    /\ hdr_result = "none"
    /\ text_open = 0
    /\ bin_open = 0
    /\ calls = 0
    /\ consumed = <<>>
    /\ eof = FALSE
    /\ config0 = EmptyDict
    /\ images0 = EmptyDict
    /\ heap0 = <<>>
    /\ img_type = ""
    /\ img_result = [outcome |-> "none", grid |-> <<>>]
    /\ img_opened = FALSE

----------------------------------------------------------------------------
\* read_header

\* The call: io.open(...) succeeds and the for loop is about to read.
read_header ==
    /\ hdr_pc = "idle"
    /\ hdr_pc' = "top"
    /\ text_open' = text_open + 1
    /\ calls' = calls + 1
    /\ hdr_result' = "running"
    /\ consumed' = <<>>
    /\ eof' = FALSE
    /\ config0' = config
    /\ images0' = images
    /\ heap0' = heap
    /\ parameter' = NoneParameter
    /\ image_config' = 0
    /\ depth' = 0
    /\ img_type' = ""
    /\ img_result' = [outcome |-> "none", grid |-> <<>>]
    /\ img_opened' = FALSE
    /\ UNCHANGED <<config, images, heap, data, bin_open>>

\* Mutant: the file is closed on the normal path only (no with block).
Raise_LeavesOpen(exc) ==
    /\ hdr_pc' = "idle"
    /\ hdr_result' = exc
    /\ text_open' = text_open
    /\ depth' = 0

\* Leaving read_header by a raised exception: the with block closes f.
Raise(exc) ==
    /\ hdr_pc' = "idle"
    /\ hdr_result' = exc
    /\ text_open' = text_open - 1
    /\ depth' = 0

\* Leaving read_header by return: the with block closes f.
Return ==
    /\ hdr_pc' = "idle"
    /\ hdr_result' = "returned"
    /\ text_open' = text_open - 1
    /\ depth' = 0

\* Mutant: the type test flipped ("==" for "!="), so no attribute is tested.
VersionRejected_TypeTestFlipped(p) ==
    /\ p.type = "H"
    /\ p.parameter = "Version"
    /\ p.hard_value \notin SupportedVersions

\* Mutant: the version test applied to scalar records only.
VersionRejected_ScalarOnly(p) ==
    /\ p.type = "V"
    /\ p.parameter = "Version"
    /\ p.hard_value \notin SupportedVersions

\* Mutant: the membership test inverted ("in" for "not in").
VersionRejected_Inverted(p) ==
    /\ p.type # "H"
    /\ p.parameter = "Version"
    /\ p.hard_value \in SupportedVersions

\* The version test of lines 51-52.
VersionRejected(p) ==
    /\ p.type # "H"
    /\ p.parameter = "Version"
    /\ p.hard_value \notin SupportedVersions

\* One iteration of the for loop of read_header up to the call of
\* _handle_parameter: read a line, parse it, test the version.
read_header_line(line) ==
    /\ hdr_pc = "top"
    /\ Len(consumed) < MaxLen
    /\ consumed' = Append(consumed, [rec |-> line, state |-> "top"])
    /\ IF ParseFails(line)
         THEN Raise("ParseError") /\ UNCHANGED parameter
         ELSE IF VersionRejected(line)
           THEN Raise("UnsupportedVersion") /\ UNCHANGED parameter
           ELSE /\ hdr_pc' = "handle"
                /\ parameter' = line
                /\ depth' = 1
                /\ UNCHANGED <<hdr_result, text_open>>
    /\ UNCHANGED <<doc_vars, data, img_vars, image_config, calls, eof,
                   config0, images0, heap0>>

\* The for loop of read_header finds the file exhausted: the function falls
\* off its end and returns None.
read_header_exhausted ==
    /\ hdr_pc = "top"
    /\ eof' = TRUE
    /\ Return
    /\ UNCHANGED <<doc_vars, data, img_vars, parameter, image_config, calls,
                   consumed, config0, images0, heap0>>

\* Mutant: the "File list end" test is missing, so the header is a no-op.
HandleOutcome_MissesEnd(p) ==
    IF p.type = "None" THEN "AttributeError"
    ELSE IF p.type = "H"
      THEN IF p.header = "Ciao image list" THEN "section" ELSE "False"
      ELSE IF p.type # "S" THEN "scalar" ELSE "False"

\* What _handle_parameter does with a record: "AttributeError" (it was
\* handed None), "True" (File list end), "section" (Ciao image list: it
\* calls _read_image_header), "scalar" (stores into self.config) or "False".
HandleOutcome(p) ==
    IF p.type = "None" THEN "AttributeError"
    ELSE IF p.type = "H"
      THEN IF p.header = "File list end" THEN "True"
           ELSE IF p.header = "Ciao image list" THEN "section"
           ELSE "False"
      ELSE IF p.type # "S" THEN "scalar" ELSE "False"

\* Mutant: line 78 calls _read_image_header and drops the header it
\* returns instead of evaluating it, so a handed-back record is a no-op.
handle_parameter_DropsHandBack ==
    /\ hdr_pc = "handle"
    /\ LET o == IF depth > 1 THEN "False" ELSE HandleOutcome(parameter) IN
       CASE o = "AttributeError" ->
              /\ Raise("AttributeError")
              /\ UNCHANGED <<doc_vars, image_config>>
         [] o = "True" ->
              /\ Return
              /\ UNCHANGED <<doc_vars, image_config>>
         [] o = "section" ->
              /\ heap' = Append(heap, EmptyDict)
              /\ image_config' = Len(heap) + 1
              /\ hdr_pc' = "section"
              /\ UNCHANGED <<config, images, depth, hdr_result, text_open>>
         [] o = "scalar" ->
              /\ config' = Put(config, parameter.parameter, parameter.hard_value)
              /\ hdr_pc' = "top"
              /\ depth' = 0
              /\ UNCHANGED <<images, heap, image_config, hdr_result, text_open>>
         [] OTHER ->
              /\ hdr_pc' = "top"
              /\ depth' = 0
              /\ UNCHANGED <<doc_vars, image_config, hdr_result, text_open>>
    /\ UNCHANGED <<data, img_vars, parameter, calls, consumed, eof,
                   config0, images0, heap0>>

\* Mutant: for a header it does not know _handle_parameter calls itself on
\* the same record instead of returning False.
handle_parameter_Reevaluates ==
    /\ hdr_pc = "handle"
    /\ LET o == HandleOutcome(parameter) IN
       CASE o = "AttributeError" ->
              /\ Raise("AttributeError")
              /\ UNCHANGED <<doc_vars, image_config>>
         [] o = "True" ->
              /\ Return
              /\ UNCHANGED <<doc_vars, image_config>>
         [] o = "section" ->
              /\ heap' = Append(heap, EmptyDict)
              /\ image_config' = Len(heap) + 1
              /\ hdr_pc' = "section"
              /\ UNCHANGED <<config, images, depth, hdr_result, text_open>>
         [] o = "scalar" ->
              /\ config' = Put(config, parameter.parameter, parameter.hard_value)
              /\ hdr_pc' = "top"
              /\ depth' = 0
              /\ UNCHANGED <<images, heap, image_config, hdr_result, text_open>>
         [] OTHER ->
              /\ IF parameter.type = "H"
                   THEN UNCHANGED <<hdr_pc, depth>>
                   ELSE hdr_pc' = "top" /\ depth' = 0
              /\ UNCHANGED <<doc_vars, image_config, hdr_result, text_open>>
    /\ UNCHANGED <<data, img_vars, parameter, calls, consumed, eof,
                   config0, images0, heap0>>

\* _handle_parameter(parameter, f), and what read_header does with its
\* result (return on True, next iteration on False).
handle_parameter ==
    /\ hdr_pc = "handle"
    /\ LET o == HandleOutcome(parameter) IN
       CASE o = "AttributeError" ->
              /\ Raise("AttributeError")
              /\ UNCHANGED <<doc_vars, image_config>>
         [] o = "True" ->
              /\ Return
              /\ UNCHANGED <<doc_vars, image_config>>
         [] o = "section" ->
              /\ heap' = Append(heap, EmptyDict)
              /\ image_config' = Len(heap) + 1
              /\ hdr_pc' = "section"
              /\ UNCHANGED <<config, images, depth, hdr_result, text_open>>
         [] o = "scalar" ->
              /\ config' = Put(config, parameter.parameter, parameter.hard_value)
              /\ hdr_pc' = "top"
              /\ depth' = 0
              /\ UNCHANGED <<images, heap, image_config, hdr_result, text_open>>
         [] OTHER ->
              /\ hdr_pc' = "top"
              /\ depth' = 0
              /\ UNCHANGED <<doc_vars, image_config, hdr_result, text_open>>
    /\ UNCHANGED <<data, img_vars, parameter, calls, consumed, eof,
                   config0, images0, heap0>>

\* Mutant: only the two headers _handle_parameter knows end a section.
SectionOutcome_KnownHeadersOnly(p) ==
    IF p.type = "H"
      THEN IF p.header \in {"File list end", "Ciao image list"} THEN "return" ELSE "skip"
    ELSE IF p.type = "S"
      THEN IF p.parameter = "Image Data" THEN "register" ELSE "skip"
      ELSE "store"

\* Mutant: the else of line 93 attached to the inner if (an indentation
\* slip): other string attributes are stored, scalars are dropped.
SectionOutcome_ElseOnInnerIf(p) ==
    IF p.type = "H" THEN "return"
    ELSE IF p.type = "S"
      THEN IF p.parameter = "Image Data" THEN "register" ELSE "store"
      ELSE "skip"

\* Mutant: every string attribute registers the dictionary, whatever its name.
SectionOutcome_AnyString(p) ==
    IF p.type = "H" THEN "return"
    ELSE IF p.type = "S" THEN "register"
    ELSE "store"

\* What _read_image_header does with a record it has parsed: "return" it
\* (a header), "register" the dictionary (Image Data), "store" a scalar, or
\* "skip".
SectionOutcome(p) ==
    IF p.type = "H" THEN "return"
    ELSE IF p.type = "S"
      THEN IF p.parameter = "Image Data" THEN "register" ELSE "skip"
      ELSE "store"

\* Mutant: line 92 registers a copy of the dictionary (dict(image_config)).
read_image_header_line_RegistersCopy(line) ==
    /\ hdr_pc = "section"
    /\ Len(consumed) < MaxLen
    /\ consumed' = Append(consumed, [rec |-> line, state |-> "section"])
    /\ IF ParseFails(line)
         THEN /\ Raise("ParseError")
              /\ UNCHANGED <<doc_vars, parameter>>
         ELSE LET o == SectionOutcome(line) IN
           CASE o = "return" ->
                  /\ hdr_pc' = "handle"
                  /\ parameter' = line
                  /\ depth' = depth + 1
                  /\ UNCHANGED <<doc_vars, hdr_result, text_open>>
             [] o = "register" ->
                  /\ heap' = Append([heap EXCEPT ![image_config] =
                                       Put(@, "Image Data", line.internal_designation)],
                                    Put(heap[image_config], "Image Data",
                                        line.internal_designation))
                  /\ images' = Put(images, line.internal_designation, Len(heap) + 1)
                  /\ UNCHANGED <<config, hdr_pc, parameter, depth, hdr_result,
                                 text_open>>
             [] o = "store" ->
                  /\ heap' = [heap EXCEPT ![image_config] =
                                Put(@, line.parameter, line.hard_value)]
                  /\ UNCHANGED <<config, images, hdr_pc, parameter, depth,
                                 hdr_result, text_open>>
             [] OTHER ->
                  UNCHANGED <<doc_vars, hdr_pc, parameter, depth, hdr_result,
                              text_open>>
    /\ UNCHANGED <<data, img_vars, image_config, calls, eof,
                   config0, images0, heap0>>

\* One iteration of the for loop of _read_image_header.
read_image_header_line(line) ==
    /\ hdr_pc = "section"
    /\ Len(consumed) < MaxLen
    /\ consumed' = Append(consumed, [rec |-> line, state |-> "section"])
    /\ IF ParseFails(line)
         THEN /\ Raise("ParseError")
              /\ UNCHANGED <<doc_vars, parameter>>
         ELSE LET o == SectionOutcome(line) IN
           CASE o = "return" ->
                  /\ hdr_pc' = "handle"
                  /\ parameter' = line
                  /\ depth' = depth + 1
                  /\ UNCHANGED <<doc_vars, hdr_result, text_open>>
             [] o = "register" ->
                  /\ heap' = [heap EXCEPT ![image_config] =
                                Put(@, "Image Data", line.internal_designation)]
                  /\ images' = Put(images, line.internal_designation, image_config)
                  /\ UNCHANGED <<config, hdr_pc, parameter, depth, hdr_result,
                                 text_open>>
             [] o = "store" ->
                  /\ heap' = [heap EXCEPT ![image_config] =
                                Put(@, line.parameter, line.hard_value)]
                  /\ UNCHANGED <<config, images, hdr_pc, parameter, depth,
                                 hdr_result, text_open>>
             [] OTHER ->
                  UNCHANGED <<doc_vars, hdr_pc, parameter, depth, hdr_result,
                              text_open>>
    /\ UNCHANGED <<data, img_vars, image_config, calls, eof,
                   config0, images0, heap0>>

\* The for loop of _read_image_header finds the file exhausted: the function
\* returns None, which its caller passes to _handle_parameter.
read_image_header_exhausted ==
    /\ hdr_pc = "section"
    /\ eof' = TRUE
    /\ hdr_pc' = "handle"
    /\ parameter' = NoneParameter
    /\ depth' = depth + 1
    /\ UNCHANGED <<doc_vars, data, img_vars, image_config, hdr_result,
                   text_open, calls, consumed, config0, images0, heap0>>

----------------------------------------------------------------------------
\* read_image_data

ImageTypes == {"Height", "Amplitude", "Phase"}

\* The names a caller may pass: the three supported ones and another.
RequestedTypes == ImageTypes \cup {"Deflection"}

Min(a, b) == IF a < b THEN a ELSE b

\* f.seek(offset); f.read(length): the bytes from offset on, at most length
\* of them and no more than the file holds.
ReadBytes(bytes, offset, length) ==
    [i \in 1..Min(length, IF Len(bytes) > offset THEN Len(bytes) - offset ELSE 0)
       |-> bytes[offset + i]]

\* int(a / b) under true division, for a >= 0 and b > 0.
IntDiv(a, b) == a \div b

\* One '<h' item: two bytes, low byte first, as a signed 16-bit integer.
Int16LE(lo, hi) ==
    LET u == lo + 256 * hi IN IF u >= 32768 THEN u - 65536 ELSE u

\* struct.unpack_from('<{num}h', buf): the first num items of buf.
Unpack(num, buf) == [k \in 1..num |-> Int16LE(buf[2 * k - 1], buf[2 * k])]

\* Mutant: column-major (Fortran) order.
Reshape_ColumnMajor(flat, rows, cols) ==
    [r \in 1..rows |-> [c \in 1..cols |-> flat[(c - 1) * rows + r]]]

\* raw_data.reshape((rows, cols)): row-major.
Reshape(flat, rows, cols) ==
    [r \in 1..rows |-> [c \in 1..cols |-> flat[(r - 1) * cols + c]]]

Failure(exc) == [outcome |-> exc, grid |-> <<>>]

\* The body of the with block of read_image_data (lines 65-71), in the
\* order in which Python evaluates it.
Decode(cfg, bytes) ==
    IF "Data offset" \notin DOMAIN cfg THEN Failure("KeyError")
    ELSE IF "Data length" \notin DOMAIN cfg THEN Failure("KeyError")
    ELSE IF "Bytes/pixel" \notin DOMAIN cfg THEN Failure("KeyError")
    ELSE IF cfg["Bytes/pixel"] = 0 THEN Failure("ZeroDivisionError")
    ELSE LET num == IntDiv(cfg["Data length"], cfg["Bytes/pixel"])
             buf == ReadBytes(bytes, cfg["Data offset"], cfg["Data length"])
         IN IF Len(buf) < 2 * num THEN Failure("StructError")
            ELSE IF "Number of lines" \notin DOMAIN cfg THEN Failure("KeyError")
            ELSE IF "Samps/line" \notin DOMAIN cfg THEN Failure("KeyError")
            ELSE IF cfg["Number of lines"] * cfg["Samps/line"] # num
              THEN Failure("ReshapeError")
              ELSE [outcome |-> "ok",
                    grid |-> Reshape(Unpack(num, buf), cfg["Number of lines"],
                                     cfg["Samps/line"])]

\* Mutant: the two tests in the other order.
Precheck_PresenceFirst(image_type, imgs) ==
    IF image_type \notin DOMAIN imgs THEN "ImageNotInFile"
    ELSE IF image_type \notin ImageTypes THEN "UnsupportedImageType"
    ELSE "pass"

\* The two tests before the file is opened (lines 59-62): the error they
\* raise, or "pass".
Precheck(image_type, imgs) ==
    IF image_type \notin ImageTypes THEN "UnsupportedImageType"
    ELSE IF image_type \notin DOMAIN imgs THEN "ImageNotInFile"
    ELSE "pass"

\* Mutant: the decoded result is memoised in the channel's dictionary.
read_image_data_Memoised(image_type) ==
    /\ hdr_pc = "idle"
    /\ img_type' = image_type
    /\ LET pre == Precheck(image_type, images) IN
       IF pre # "pass"
         THEN /\ img_result' = Failure(pre)
              /\ img_opened' = FALSE
              /\ UNCHANGED heap
         ELSE LET cfg == heap[images[image_type]] IN
              IF "raw_data" \in DOMAIN cfg
                THEN /\ img_result' = cfg["raw_data"]
                     /\ img_opened' = FALSE
                     /\ UNCHANGED heap
                ELSE /\ img_result' = Decode(cfg, data)
                     /\ img_opened' = TRUE
                     /\ heap' = [heap EXCEPT ![images[image_type]] =
                                   Put(@, "raw_data", Decode(cfg, data))]
    /\ UNCHANGED <<config, images, bin_open, data, hdr_vars>>

\* read_image_data(image_type), from call to return or raise.  The with
\* block closes the handle it opened on every way out.
read_image_data(image_type) ==
    /\ hdr_pc = "idle"
    /\ img_type' = image_type
    /\ LET pre == Precheck(image_type, images) IN
       IF pre # "pass"
         THEN /\ img_result' = Failure(pre)
              /\ img_opened' = FALSE
              /\ bin_open' = bin_open
         ELSE /\ img_result' = Decode(heap[images[image_type]], data)
              /\ img_opened' = TRUE
              /\ bin_open' = (bin_open + 1) - 1
    /\ UNCHANGED <<doc_vars, data, hdr_vars>>

----------------------------------------------------------------------------
Next ==
    \/ (calls = 0 /\ read_header)
    \/ \E line \in Lines : read_header_line(line)
    \/ read_header_exhausted
    \/ handle_parameter
    \/ \E line \in Lines : read_image_header_line(line)
    \/ read_image_header_exhausted
    \/ \E t \in RequestedTypes : read_image_data(t)

Spec == Init /\ [][Next]_vars

----------------------------------------------------------------------------
\* read_header called again and again on the same parser (the file may have
\* changed in between), on short streams of the records that matter to the
\* version test.

\* Most read_header calls on one parser.
MaxCalls == 2

\* Most lines one of these calls reads.
MaxRepeatLen == 3

RepeatLines ==
    { Header("File list end"), Header("Ciao image list"),
      Select("Version", "", "0x05120000"),
      Value("Version", "0x05120130"), Value("Version", "0x05120000") }

NextRepeat ==
    \/ (calls < MaxCalls /\ read_header)
    \/ \E line \in RepeatLines :
         (Len(consumed) < MaxRepeatLen /\ read_header_line(line))
    \/ read_header_exhausted
    \/ handle_parameter
    \/ \E line \in RepeatLines :
         (Len(consumed) < MaxRepeatLen /\ read_image_header_line(line))
    \/ read_image_header_exhausted

SpecRepeat == Init /\ [][NextRepeat]_vars

----------------------------------------------------------------------------
\* One read_header call that is not held up: the interpreter executes the
\* next step of the call whenever there is one (the code is sequential and
\* every read of the file returns a line or the end of the file).

\* Most lines the call reads here.
MaxLiveLen == 3

HeaderStep ==
    \/ \E line \in Lines :
         (Len(consumed) < MaxLiveLen /\ read_header_line(line))
    \/ read_header_exhausted
    \/ handle_parameter
    \/ \E line \in Lines :
         (Len(consumed) < MaxLiveLen /\ read_image_header_line(line))
    \/ read_image_header_exhausted

NextLive == (calls = 0 /\ read_header) \/ HeaderStep

SpecLive == Init /\ [][NextLive]_vars /\ WF_vars(HeaderStep)

----------------------------------------------------------------------------
\* The decoder on its own: the parser after read_header has returned on a
\* file with two "Ciao image list" sections, one that registers Height and
\* gives the five numeric fields and one that registers Amplitude and gives
\* none of them, and the bytes that file holds.

ByteValues == {1, 128}

BytesUpTo(n) == UNION { [1..k -> ByteValues] : k \in 0..n }

\* A file of four 16-bit samples, all different: 257, -32767, 384, -32640.
FourSamples == <<1, 1, 1, 128, 128, 1, 128, 128>>

ChannelConfigs ==
    { [k \in {"Image Data", "Data offset", "Data length", "Bytes/pixel",
              "Number of lines", "Samps/line"} |->
         CASE k = "Image Data" -> "Height"
           [] k = "Data offset" -> off
           [] k = "Data length" -> len
           [] k = "Bytes/pixel" -> bpp
           [] k = "Number of lines" -> rows
           [] k = "Samps/line" -> cols] :
      off \in 0..1, len \in (0..MaxBytes) \cup {Len(FourSamples)},
      bpp \in 0..MaxField,
      rows \in 0..MaxField, cols \in 0..MaxField }

\* The dictionary of a section that held only its "Image Data" record.
AmplitudeConfig == [k \in {"Image Data"} |-> "Amplitude"]

InitDecode ==
    /\ config = [k \in {"Version"} |-> "0x05120130"]
    /\ \E cfg \in ChannelConfigs : heap = <<cfg, AmplitudeConfig>>
    /\ images = [k \in {"Height", "Amplitude"} |-> IF k = "Height" THEN 1 ELSE 2]
    /\ data \in BytesUpTo(MaxBytes) \cup {FourSamples}
    /\ hdr_pc = "idle"
    /\ parameter = Header("File list end")
    /\ image_config = 2
    /\ depth = 0
    /\ hdr_result = "returned"
    /\ text_open = 0
    /\ bin_open = 0
    /\ calls = 1
    /\ consumed = <<>>
    /\ eof = FALSE
    /\ config0 = EmptyDict
    /\ images0 = EmptyDict
    /\ heap0 = <<>>
    /\ img_type = ""
    /\ img_result = [outcome |-> "none", grid |-> <<>>]
    /\ img_opened = FALSE

NextDecode == \E t \in RequestedTypes : read_image_data(t)

SpecDecode == InitDecode /\ [][NextDecode]_vars

----------------------------------------------------------------------------
\* Vocabulary of the properties, stated over the history of the call.

FileListEnd(r) == r.type = "H" /\ r.header = "File list end"

ImageData(r) == r.type = "S" /\ r.parameter = "Image Data"

Scalar(r) == r.type = "V"

UnsupportedVersionRecord(r) ==
    r.type \in {"S", "V"} /\ r.parameter = "Version" /\ r.hard_value # "0x05120130"

Positions == 1..Len(consumed)

\* read_header is over and the last record it read is "File list end".
ReachedFileListEnd ==
    /\ hdr_pc = "idle"
    /\ consumed # <<>>
    /\ FileListEnd(consumed[Len(consumed)].rec)

HeaderFailed ==
    hdr_pc = "idle" /\ hdr_result \in {"UnsupportedVersion", "ParseError", "AttributeError"}

\* C1 (as stated): once read_header has returned on a stream that reached
\* "File list end", the keys of images are exactly the designations of the
\* "Image Data" string attributes read before it, wherever they were read.
C1_AsStated ==
    (ReachedFileListEnd /\ hdr_result = "returned") =>
        DOMAIN images =
            (DOMAIN images0) \cup
            { consumed[i].rec.internal_designation :
                i \in { j \in Positions : ImageData(consumed[j].rec) } }

\* C1 (amended): once read_header has returned on a stream that reached
\* "File list end", the keys of images are exactly the designations of the
\* "Image Data" string attributes read inside a "Ciao image list" section
\* (added to the keys present before the call); "Image Data" records read at
\* top level register nothing.
C1_ChannelKeys ==
    (ReachedFileListEnd /\ hdr_result = "returned") =>
        DOMAIN images =
            (DOMAIN images0) \cup
            { consumed[i].rec.internal_designation :
                i \in { j \in Positions : /\ ImageData(consumed[j].rec)
                                          /\ consumed[j].state = "section" } }

\* A section registered Height and an "Image Data" record for Amplitude was
\* read at top level, before "File list end".
C1_Witness ==
    /\ ReachedFileListEnd /\ hdr_result = "returned"
    /\ \E i, j \in Positions :
         /\ ImageData(consumed[i].rec) /\ consumed[i].state = "section"
         /\ consumed[i].rec.internal_designation = "Height"
         /\ ImageData(consumed[j].rec) /\ consumed[j].state = "top"
         /\ consumed[j].rec.internal_designation = "Amplitude"

\* C2: a read_header whose stream ran out of records before "File list end"
\* has failed; it has not returned normally.
C2_EarlyEndFails ==
    (hdr_pc = "idle" /\ eof) => hdr_result # "returned"

\* C3: the unsupported-version error is raised exactly when a record read in
\* state Top is not a header, is named "Version" and has another hard value
\* than "0x05120130"; it is raised at that record (no later record is read)
\* and the step that raises it leaves GlobalConfig and the channel map alone.
C3_VersionGuard ==
    /\ [](/\ (hdr_result = "UnsupportedVersion") <=>
               \E i \in Positions : /\ consumed[i].state = "top"
                                    /\ UnsupportedVersionRecord(consumed[i].rec)
          /\ \A i \in Positions :
               (consumed[i].state = "top" /\ UnsupportedVersionRecord(consumed[i].rec))
                  => (i = Len(consumed) /\ hdr_pc = "idle"))
    /\ [][(hdr_result' = "UnsupportedVersion" /\ hdr_result # "UnsupportedVersion")
            => UNCHANGED doc_vars]_vars

\* A string attribute named "Version" with an unsupported value was read at
\* top level after a section, and the error was raised.
C3_Witness ==
    /\ hdr_result = "UnsupportedVersion"
    /\ Len(consumed) >= 3
    /\ consumed[Len(consumed)].rec.type = "S"
    /\ \E i \in Positions : consumed[i].state = "section"

\* C4 (as stated): a stream that reached "File list end" and held, anywhere
\* before it, a scalar "Version" record with an unsupported value has failed
\* with the unsupported-version error.
C4_AsStated ==
    (/\ hdr_pc = "idle"
     /\ \E i \in Positions : /\ Scalar(consumed[i].rec)
                             /\ UnsupportedVersionRecord(consumed[i].rec))
        => hdr_result = "UnsupportedVersion"

\* C4 (amended): a scalar "Version" record with an unsupported value fails
\* read_header with the unsupported-version error when it is read at top
\* level; read inside a "Ciao image list" section it raises nothing and is
\* stored in that section's dictionary.
C4_TopLevelVersion ==
    \A i \in Positions :
        (Scalar(consumed[i].rec) /\ UnsupportedVersionRecord(consumed[i].rec)) =>
            /\ consumed[i].state = "top" => hdr_result = "UnsupportedVersion"
            /\ (consumed[i].state = "section" /\ i = Len(consumed)) =>
                 /\ hdr_result # "UnsupportedVersion"
                 /\ "Version" \in DOMAIN heap[image_config]
                 /\ heap[image_config]["Version"] = consumed[i].rec.hard_value

\* Both cases in one run is impossible (the top-level one ends the call), so
\* the witness is the top-level case after a section has been read.
C4_Witness ==
    /\ hdr_result = "UnsupportedVersion"
    /\ Scalar(consumed[Len(consumed)].rec)
    /\ \E i \in Positions : consumed[i].state = "section"

\* C7: read_image_data fails with the unsupported-channel error for a name
\* outside {Height, Amplitude, Phase} (whether or not it is a key), with the
\* not-present error for a name of that set that is no key of images, and in
\* neither case opens the file.
C7_ChecksBeforeOpen ==
    img_result.outcome # "none" =>
        /\ img_type \notin {"Height", "Amplitude", "Phase"} =>
             (img_result.outcome = "UnsupportedImageType" /\ ~img_opened)
        /\ (img_type \in {"Height", "Amplitude", "Phase"} /\ img_type \notin DOMAIN images) =>
             (img_result.outcome = "ImageNotInFile" /\ ~img_opened)

\* Phase was requested from a parser whose header registered Height only.
C7_Witness ==
    /\ img_type = "Phase"
    /\ img_result.outcome = "ImageNotInFile"
    /\ DOMAIN images = {"Height"}
    /\ ~img_opened

\* C8: a read_header that raised has left GlobalConfig, the channel map and
\* the channel dictionaries as they were when it was called.
C8_AllOrNothing ==
    HeaderFailed =>
        /\ config = config0
        /\ DOMAIN images = DOMAIN images0
        /\ \A k \in DOMAIN images0 : heap[images[k]] = heap0[images0[k]]

\* C9: no record is read after a "File list end" header: such a header is
\* the last record read, it is either about to be evaluated by
\* _handle_parameter or read_header has returned, and its evaluation makes
\* read_header return without touching GlobalConfig or the channel map.
C9_Terminal ==
    /\ [](\A i \in Positions :
            FileListEnd(consumed[i].rec) =>
                /\ i = Len(consumed)
                /\ \/ hdr_pc = "handle" /\ FileListEnd(parameter)
                   \/ hdr_pc = "idle" /\ hdr_result = "returned")
    /\ [][(hdr_pc = "handle" /\ FileListEnd(parameter))
            => (hdr_pc' = "idle" /\ hdr_result' = "returned" /\ UNCHANGED doc_vars)]_vars

\* A section handed "File list end" back, read_header returned, and the
\* stream could have held more records.
C9_Witness ==
    /\ ReachedFileListEnd /\ hdr_result = "returned"
    /\ consumed[Len(consumed)].state = "section"
    /\ Len(consumed) < MaxLen

\* The last scalar record named n that was read in state Top, or 0.
LastTopScalar(n) ==
    LET S == { i \in Positions : /\ consumed[i].state = "top"
                                 /\ consumed[i].rec.type \notin {"H", "S"}
                                 /\ consumed[i].rec.parameter = n }
    IN IF S = {} THEN 0 ELSE CHOOSE i \in S : \A j \in S : j <= i

ParameterNames == { r.parameter : r \in Lines }

\* C10: after read_header has returned, GlobalConfig holds a name exactly
\* when a scalar record of that name was read in state Top (or the name was
\* there before the call), with the hard value of the last such record;
\* headers, string attributes and records read inside a section add nothing.
C10_GlobalConfig ==
    (hdr_pc = "idle" /\ hdr_result = "returned") =>
        /\ DOMAIN config =
             (DOMAIN config0) \cup { n \in ParameterNames : LastTopScalar(n) # 0 }
        /\ \A n \in DOMAIN config :
             config[n] = IF LastTopScalar(n) # 0
                           THEN consumed[LastTopScalar(n)].rec.hard_value
                           ELSE config0[n]

\* The same name was read twice at top level, with different values.
C10_Witness ==
    /\ hdr_pc = "idle" /\ hdr_result = "returned"
    /\ \E i, j \in Positions :
         /\ i < j
         /\ consumed[i].state = "top" /\ consumed[j].state = "top"
         /\ Scalar(consumed[i].rec) /\ Scalar(consumed[j].rec)
         /\ consumed[i].rec.parameter = consumed[j].rec.parameter
         /\ consumed[i].rec.hard_value # consumed[j].rec.hard_value

----------------------------------------------------------------------------
\* Properties of the decoder, over SpecDecode.

HeightConfig == heap[images["Height"]]

DecodedHeight == img_type = "Height" /\ img_result.outcome # "none"

\* The file holds at least Data length bytes from Data offset.
FileHoldsData ==
    Len(data) >= HeightConfig["Data offset"] + HeightConfig["Data length"]

\* C5: decoding a channel whose file holds the declared bytes succeeds
\* exactly when Data length / Bytes/pixel equals Number of lines * Samps/line
\* as an exact integer equality, and fails with the shape-mismatch error in
\* every other case (stated for a Bytes/pixel other than 0, where the
\* quotient exists).
C5_ShapeIff ==
    (DecodedHeight /\ FileHoldsData /\ HeightConfig["Bytes/pixel"] # 0) =>
        LET exact == HeightConfig["Data length"] =
                         HeightConfig["Bytes/pixel"] * HeightConfig["Number of lines"]
                           * HeightConfig["Samps/line"]
        IN /\ (img_result.outcome = "ok") <=> exact
           /\ ~exact => img_result.outcome = "ReshapeError"

\* C6: when Data length is not an integral multiple of Bytes/pixel,
\* read_image_data fails; it does not decode a truncated sample count.
C6_NonIntegralFails ==
    (/\ DecodedHeight
     /\ HeightConfig["Bytes/pixel"] # 0
     /\ HeightConfig["Data length"] % HeightConfig["Bytes/pixel"] # 0)
        => img_result.outcome # "ok"

----------------------------------------------------------------------------
\* Sections of the stream, read off the history: a section starts after a
\* "Ciao image list" header and holds the records up to the next header.

CiaoImageList(r) == r.type = "H" /\ r.header = "Ciao image list"

SectionStarts == { h \in Positions : CiaoImageList(consumed[h].rec) }

\* Position of the header that ends the section started at h, or one past
\* the records read so far.
SectionEnd(h) ==
    LET later == { e \in Positions : e > h /\ consumed[e].rec.type = "H" }
    IN IF later = {} THEN Len(consumed) + 1
       ELSE CHOOSE e \in later : \A f \in later : e <= f

Members(h) == (h + 1)..(SectionEnd(h) - 1)

\* The last scalar record named n in the section started at h, or 0.
LastScalarIn(h, n) ==
    LET S == { i \in Members(h) : Scalar(consumed[i].rec) /\ consumed[i].rec.parameter = n }
    IN IF S = {} THEN 0 ELSE CHOOSE i \in S : \A j \in S : j <= i

\* The dictionary registered under designation d holds exactly the scalars
\* of the section started at h (last value of each name) beside its
\* "Image Data" entry.
HoldsScalarsOf(d, h) ==
    /\ d \in DOMAIN images
    /\ LET cfg == heap[images[d]] IN
       /\ \A n \in ParameterNames :
            LastScalarIn(h, n) # 0 =>
              (n \in DOMAIN cfg /\ cfg[n] = consumed[LastScalarIn(h, n)].rec.hard_value)
       /\ \A n \in DOMAIN cfg :
            n # "Image Data" => LastScalarIn(h, n) # 0

\* C11 (as stated): for every section that holds an "Image Data" record, the
\* dictionary registered under its designation holds the last value of each
\* scalar of that section, wherever the scalar stands, and no scalar of
\* another section or of the top level.
C11_AsStated ==
    \A h \in SectionStarts : \A i \in Members(h) :
        ImageData(consumed[i].rec) =>
            HoldsScalarsOf(consumed[i].rec.internal_designation, h)

\* A later section registers the designation of record i again.
RegisteredAgain(h, i) ==
    \E j \in Positions :
        /\ j >= SectionEnd(h)
        /\ consumed[j].state = "section"
        /\ ImageData(consumed[j].rec)
        /\ consumed[j].rec.internal_designation = consumed[i].rec.internal_designation

\* C11 (amended): the same, for every section whose designation is not
\* registered again by a later section of the stream; a later section with
\* the same designation replaces the entry of the channel map by its own
\* dictionary.
C11_SectionConfig ==
    \A h \in SectionStarts : \A i \in Members(h) :
        (ImageData(consumed[i].rec) /\ ~RegisteredAgain(h, i)) =>
            HoldsScalarsOf(consumed[i].rec.internal_designation, h)

\* A section with the same scalar name before and after its "Image Data"
\* record, with different values.
C11_Witness ==
    \E h \in SectionStarts : \E a, i, b \in Members(h) :
        /\ a < i /\ i < b
        /\ ImageData(consumed[i].rec)
        /\ Scalar(consumed[a].rec) /\ Scalar(consumed[b].rec)
        /\ consumed[a].rec.parameter = consumed[b].rec.parameter
        /\ consumed[a].rec.hard_value # consumed[b].rec.hard_value
        /\ heap[images[consumed[i].rec.internal_designation]][consumed[b].rec.parameter]
             = consumed[b].rec.hard_value

\* The dictionary _read_image_header created for the section started at h
\* (the sections of a call are created in the order of their headers).
SectionDict(h) ==
    Len(heap0) + Cardinality({ g \in SectionStarts : g <= h })

Registered == { images[d] : d \in DOMAIN images }

\* The section started at h has been closed by a header and held no
\* "Image Data" record.
ClosedWithoutImageData(h) ==
    /\ SectionEnd(h) <= Len(consumed)
    /\ \A i \in Members(h) : ~ImageData(consumed[i].rec)

\* C12: a section closed without an "Image Data" record leaves no trace in
\* the Document: its dictionary (which holds its scalars) is not referenced
\* by the channel map, the channel map has no key but those of "Image Data"
\* records of sections, GlobalConfig holds none of its scalars, and the call
\* goes on: it fails only for another reason (the file ran out inside a
\* section, a line the tokenizer rejects, an unsupported version at top level).
C12_UnregisteredSection ==
    \A h \in SectionStarts :
        ClosedWithoutImageData(h) =>
            /\ SectionDict(h) \in 1..Len(heap)
            /\ \A n \in ParameterNames :
                 LastScalarIn(h, n) # 0 =>
                   /\ n \in DOMAIN heap[SectionDict(h)]
                   /\ heap[SectionDict(h)][n] = consumed[LastScalarIn(h, n)].rec.hard_value
            /\ SectionDict(h) \notin Registered
            /\ DOMAIN images \subseteq
                 (DOMAIN images0) \cup
                 { consumed[i].rec.internal_designation :
                     i \in { j \in Positions : ImageData(consumed[j].rec) } }
            /\ \A n \in DOMAIN config :
                 n \in DOMAIN config0 \/ LastTopScalar(n) # 0
            /\ \/ hdr_result \in {"running", "returned"}
               \/ hdr_result = "AttributeError" /\ eof
               \/ hdr_result = "ParseError" /\ consumed[Len(consumed)].rec.type = "?"
               \/ /\ hdr_result = "UnsupportedVersion"
                  /\ consumed[Len(consumed)].state = "top"
                  /\ UnsupportedVersionRecord(consumed[Len(consumed)].rec)

\* read_header has returned after a section that held a scalar and no
\* "Image Data" record; GlobalConfig and the channel map are empty.
C12_Witness ==
    /\ hdr_pc = "idle" /\ hdr_result = "returned"
    /\ config = EmptyDict /\ images = EmptyDict
    /\ \E h \in SectionStarts :
         /\ ClosedWithoutImageData(h)
         /\ \E i \in Members(h) : Scalar(consumed[i].rec)

----------------------------------------------------------------------------
\* What read_image_data(t) yields in the current state.
ResultOf(t) ==
    IF Precheck(t, images) # "pass" THEN Failure(Precheck(t, images))
    ELSE Decode(heap[images[t]], data)

\* A step of read_image_data: no variable of read_header changes.
DecodeStep == UNCHANGED hdr_vars

\* C13: a read_image_data call, whether it returns a grid or raises, leaves
\* GlobalConfig, the channel map, every channel dictionary and the file as
\* they were and keeps no handle; so the same call repeated yields the same
\* grid or error, and after the call every channel still decodes to what it
\* decoded to before it.
C13_DecodeIsPure ==
    [][DecodeStep =>
         /\ UNCHANGED <<config, images, heap, data, bin_open>>
         /\ (img_type' = img_type /\ img_result.outcome # "none")
               => img_result' = img_result
         /\ \A t \in RequestedTypes : ResultOf(t)' = ResultOf(t)]_vars

\* Height has been decoded to a grid with samples while Amplitude, which is
\* registered, cannot be decoded (its dictionary lacks the numeric fields).
C13_Witness ==
    /\ img_type = "Height"
    /\ img_result.outcome = "ok"
    /\ img_result.grid # <<>>
    /\ img_result.grid[1] # <<>>
    /\ ResultOf("Amplitude").outcome = "KeyError"
    /\ ResultOf("Height") = img_result

\* The signed 16-bit value of two bytes, low byte first.
Signed16(lo, hi) ==
    LET u == lo + 256 * hi IN IF u \in 32768..65535 THEN u - 65536 ELSE u

\* C14: on success the grid has Number of lines rows of Samps/line columns
\* and its element at row r, column c (from 0) is the signed little-endian
\* 16-bit value of the file bytes at Data offset + 2*(r*S + c) and the byte
\* after it, whatever Bytes/pixel is.
C14_SampleLayout ==
    (DecodedHeight /\ img_result.outcome = "ok") =>
        LET L == HeightConfig["Number of lines"]
            S == HeightConfig["Samps/line"]
            off == HeightConfig["Data offset"]
            grid == img_result.grid
        IN /\ Len(grid) = L
           /\ \A r \in 0..(L - 1) :
                /\ Len(grid[r + 1]) = S
                /\ \A c \in 0..(S - 1) :
                     LET pos == off + 2 * (r * S + c) IN
                     /\ pos + 2 <= Len(data)
                     /\ grid[r + 1][c + 1] = Signed16(data[pos + 1], data[pos + 2])

\* A 2 x 2 grid of four different samples, two of them negative.
C14_Witness ==
    /\ DecodedHeight /\ img_result.outcome = "ok"
    /\ img_result.grid = <<<<257, -32767>>, <<384, -32640>>>>

\* C15: while read_header runs it holds exactly the one text handle it
\* opened; once read_header or read_image_data has left, by return or by any
\* raised error, no handle is open; and a call opens its own handle whatever
\* calls came before.
C15_HandlesClosed ==
    /\ [](/\ hdr_pc = "idle" => (text_open = 0 /\ bin_open = 0)
          /\ hdr_pc # "idle" => (text_open = 1 /\ bin_open = 0))
    /\ [][(hdr_pc = "idle" /\ hdr_pc' # "idle") => text_open' = text_open + 1]_vars

\* read_header has returned at "File list end" and a later read_image_data
\* opened the file and raised; nothing is open.
C15_Witness ==
    /\ ReachedFileListEnd /\ hdr_result = "returned"
    /\ img_opened /\ img_result.outcome = "KeyError"
    /\ text_open = 0 /\ bin_open = 0

\* The last header read before position i, or 0.
LastHeaderBefore(i) ==
    LET H == { h \in 1..(i - 1) : consumed[h].rec.type = "H" }
    IN IF H = {} THEN 0 ELSE CHOOSE h \in H : \A g \in H : g <= h

\* C16: the header that ends a section is evaluated by _handle_parameter
\* without another record being read; a record is read inside a section
\* exactly when the last header before it is "Ciao image list" (so the
\* record after a handed-back "Ciao image list" opens the next section) and
\* at top level otherwise; every step reads at most one record, appended to
\* those read before, and the step that evaluates a record reads none.
C16_HandBack ==
    /\ [](/\ \A i \in Positions :
               consumed[i].state = "section" <=>
                 (LastHeaderBefore(i) # 0 /\ CiaoImageList(consumed[LastHeaderBefore(i)].rec))
          /\ \A i \in Positions : consumed[i].state \in {"top", "section"}
          /\ (hdr_pc = "handle" /\ ~eof) => parameter = consumed[Len(consumed)].rec
          /\ (hdr_pc = "section") =>
               (LastHeaderBefore(Len(consumed) + 1) # 0
                /\ CiaoImageList(consumed[LastHeaderBefore(Len(consumed) + 1)].rec)))
    /\ [][/\ hdr_pc = "handle" => consumed' = consumed
          /\ (hdr_pc # "idle" /\ consumed' # consumed) =>
               (Len(consumed') = Len(consumed) + 1
                /\ SubSeq(consumed', 1, Len(consumed)) = consumed)]_vars

\* Two sections in a row: a "Ciao image list" header ended the first and
\* the record after it was read inside the second, which "File list end"
\* ended.
C16_Witness ==
    /\ ReachedFileListEnd /\ hdr_result = "returned"
    /\ consumed[Len(consumed)].state = "section"
    /\ \E i \in Positions :
         /\ i + 1 < Len(consumed)
         /\ CiaoImageList(consumed[i].rec) /\ consumed[i].state = "section"
         /\ consumed[i + 1].state = "section"
         /\ consumed[i + 1].rec.type # "H"

OtherHeader(r) ==
    r.type = "H" /\ r.header \notin {"File list end", "Ciao image list"}

\* Every record read so far has been dealt with and no error was raised.
Settled == hdr_pc = "top" \/ (hdr_pc = "idle" /\ hdr_result = "returned")

LastImageDataIn(h) ==
    LET S == { i \in Members(h) : ImageData(consumed[i].rec) }
    IN IF S = {} THEN 0 ELSE CHOOSE i \in S : \A j \in S : j <= i

\* C18: every "Image Data" record of a section registers the one dictionary
\* of that section under its designation (so two designations of a section
\* are two keys for the same dictionary, and a scalar stored later shows
\* under both), and the "Image Data" entry of the dictionary is the
\* designation of the last such record of the section.  (A key registered
\* again by a later section refers to that section's dictionary.)
C18_SharedDictionary ==
    \A h \in SectionStarts : \A i \in Members(h) :
        ImageData(consumed[i].rec) =>
            LET d == consumed[i].rec.internal_designation
                own == heap[SectionDict(h)]
            IN /\ d \in DOMAIN images
               /\ ~RegisteredAgain(h, i) => images[d] = SectionDict(h)
               /\ "Image Data" \in DOMAIN own
               /\ own["Image Data"] = consumed[LastImageDataIn(h)].rec.internal_designation
               /\ \A n \in ParameterNames :
                    LastScalarIn(h, n) # 0 =>
                      (n \in DOMAIN own
                       /\ own[n] = consumed[LastScalarIn(h, n)].rec.hard_value)

\* One section registered Height and then Amplitude and a scalar followed:
\* both keys refer to one dictionary, which holds the scalar and whose
\* "Image Data" entry is Amplitude.
C18_Witness ==
    /\ DOMAIN images = {"Height", "Amplitude"}
    /\ images["Height"] = images["Amplitude"]
    /\ heap[images["Height"]]["Image Data"] = "Amplitude"
    /\ "Samps/line" \in DOMAIN heap[images["Height"]]
    /\ \E h \in SectionStarts : \E i, j, k \in Members(h) :
         /\ i < j /\ j < k
         /\ ImageData(consumed[i].rec) /\ ImageData(consumed[j].rec)
         /\ Scalar(consumed[k].rec)

\* C19: in every state GlobalConfig has no "Version" entry or maps it to
\* "0x05120130", and a "Version" attribute that _handle_parameter is about
\* to store has passed the version test.
C19_StoredVersionSupported ==
    /\ "Version" \in DOMAIN config => config["Version"] = "0x05120130"
    /\ (hdr_pc = "handle" /\ parameter.type \notin {"H", "None"}
          /\ parameter.parameter = "Version")
         => parameter.hard_value = "0x05120130"

\* A second read_header call on the same parser failed on an unsupported
\* version; GlobalConfig still holds the Version stored by the first call.
C19_Witness ==
    /\ calls = 2
    /\ hdr_result = "UnsupportedVersion"
    /\ Scalar(consumed[Len(consumed)].rec)
    /\ "Version" \in DOMAIN config

\* The last record read in state Top, or 0: where the present run of
\* sections began.
ChainStart ==
    LET T == { i \in Positions : consumed[i].state = "top" }
    IN IF T = {} THEN 0 ELSE CHOOSE i \in T : \A j \in T : j <= i

\* Records handed back by _read_image_header since then: the headers read
\* inside sections, and None if the file ran out inside one.
HandBacks ==
    Cardinality({ i \in Positions : i > ChainStart /\ consumed[i].rec.type = "H" })
      + (IF eof /\ hdr_pc = "handle" THEN 1 ELSE 0)

\* C20: a read_header call that has begun finishes, by return or by error;
\* while it runs, the nesting of _handle_parameter is one more than the
\* records handed back in the present run of sections, which are no more
\* than the "Ciao image list" sections of that run.
C20_Terminates ==
    /\ (hdr_pc # "idle") ~> (hdr_pc = "idle")
    /\ [](hdr_pc \in {"handle", "section"} =>
            /\ depth = 1 + HandBacks
            /\ HandBacks <= Cardinality({ h \in SectionStarts : h >= ChainStart }))

\* read_header has returned after two sections in a row, the second ended
\* by "File list end".
C20_Witness ==
    /\ hdr_pc = "idle" /\ hdr_result = "returned"
    /\ Len(consumed) = 3
    /\ CiaoImageList(consumed[1].rec)
    /\ CiaoImageList(consumed[2].rec)
    /\ FileListEnd(consumed[3].rec)

====
